---- MODULE Spec2Model ----
(***************************************************************************)
(* Channel registry and message broadcast of yychat-server.                *)
(*                                                                         *)
(* Two variants of the server are modelled over one state:                 *)
(*   "strict"  : src/src/index.ts      (class Channels, validated names)   *)
(*   "minimal" : src/unnamed/part_000  (module-level Map, non-empty names) *)
(* Every HTTP handler and the websocket 'message' handler is synchronous   *)
(* (no await), so on Node's single-threaded event loop each runs to        *)
(* completion before the next starts: one action per handler.              *)
(***************************************************************************)
EXTENDS Integers, Sequences, FiniteSets, TLC

VARIABLES
    variant,        \* which server program is running: "strict" or "minimal"
    channels,       \* Map<ChannelId, Channel> as the sequence of its values in insertion order
    nextChannelId,  \* the id counter
    clients,        \* app.ws.server.clients in insertion order: each socket's readyState
    last,           \* the request handled by the last step and the response it produced
    sent,           \* per position of `clients`, the frames the last step delivered to it
    issued,         \* history: every id issueNextChannelId has returned
    deleted         \* history: every id removed by a DELETE request

vars == <<variant, channels, nextChannelId, clients, last, sent, issued, deleted>>

(***************************************************************************)
(* Bounds of the model.                                                    *)
(***************************************************************************)
MaxChannelId == 4   \* no id above this is issued
MaxMessages == 2    \* the histories of the live channels hold at most this many messages
NumConns == 2       \* websocket connections that may be in `clients` at once

(***************************************************************************)
(* Strings are sequences of one-character strings, so that .length and the *)
(* regular expression of validateChannelName are computed, not assumed.    *)
(***************************************************************************)
Upper == {"A","B","C","D","E","F","G","H","I","J","K","L","M",
          "N","O","P","Q","R","S","T","U","V","W","X","Y","Z"}
Lower == {"a","b","c","d","e","f","g","h","i","j","k","l","m",
          "n","o","p","q","r","s","t","u","v","w","x","y","z"}
Digits == {"0","1","2","3","4","5","6","7","8","9"}

\* the character class [A-Za-z0-9_-]
NameChars == Upper \cup Lower \cup Digits \cup {"_", "-"}

\* /^[A-Za-z0-9_-]*$/.test(name)
MatchesNameRegex(name) == \A i \in 1..Len(name) : name[i] \in NameChars

MaxNameLength == 15

general == <<"g","e","n","e","r","a","l">>
General == <<"G","e","n","e","r","a","l">>
random == <<"r","a","n","d","o","m">>
aSpaceB == <<"a"," ","b">>
NameOfLength(n) == [i \in 1..n |-> IF i = 1 THEN "c" ELSE "-"]

(***************************************************************************)
(* JavaScript values as they reach the handlers: undefined, a string, or a *)
(* number num/den (den = 1: an integer, den = 2: a half, den = 0: NaN).    *)
(***************************************************************************)
Undefined == [t |-> "undefined", s |-> <<>>, num |-> 0, den |-> 1]
Str(s) == [t |-> "string", s |-> s, num |-> 0, den |-> 1]
Num(n) == [t |-> "number", s |-> <<>>, num |-> n, den |-> 1]
Half(n) == [t |-> "number", s |-> <<>>, num |-> n, den |-> 2]
NaN == [t |-> "number", s |-> <<>>, num |-> 0, den |-> 0]

\* typeof
TypeOf(v) == v.t

(***************************************************************************)
(* Channel records.  NoChannel stands for `undefined` (ids start at 1).    *)
(***************************************************************************)
NoChannel == [id |-> 0, name |-> <<>>, messages |-> <<>>]

\* Map.prototype.get with a number key: only an integer key can be present
MapGet(chs, key) ==
    IF key.t = "number" /\ key.den = 1 /\ \E i \in 1..Len(chs) : chs[i].id = key.num
    THEN LET i == CHOOSE i \in 1..Len(chs) : chs[i].id = key.num IN chs[i]
    ELSE NoChannel

\* a set that moves a present key to the end (delete, then set)
MapSetMovesToEnd(chs, ch) == Append(SelectSeq(chs, LAMBDA c : c.id # ch.id), ch)

\* Map.prototype.set: a present key keeps its position, a new key goes last
MapSet(chs, ch) ==
    IF \E i \in 1..Len(chs) : chs[i].id = ch.id
    THEN [i \in 1..Len(chs) |-> IF chs[i].id = ch.id THEN ch ELSE chs[i]]
    ELSE Append(chs, ch)

\* Map.prototype.delete
MapDelete(chs, key) ==
    SelectSeq(chs, LAMBDA c : ~(key.t = "number" /\ key.den = 1 /\ c.id = key.num))

(***************************************************************************)
(* class Channels (strict variant).  A method that throws is modelled by   *)
(* the `error` field of its result: "" means it returned normally.         *)
(***************************************************************************)
NameEmpty == "channel name must have at least 1 character"
NameTooLong == "channel name must have at most 15 characters"
NameCharset == "channel name must be alphanumeric"
NameDuplicate == "channel name is already in use"
ChannelMissing == "channel does not exist"

\* validateChannelName without its duplicate check
validateChannelNameNoDuplicate(chs, name) ==
    IF Len(name) = 0 THEN NameEmpty
    ELSE IF Len(name) > MaxNameLength THEN NameTooLong
    ELSE IF ~MatchesNameRegex(name) THEN NameCharset
    ELSE ""

\* validateChannelName without its upper length check
validateChannelNameNoLength(chs, name) ==
    IF Len(name) = 0 THEN NameEmpty
    ELSE IF ~MatchesNameRegex(name) THEN NameCharset
    ELSE IF \E i \in 1..Len(chs) : chs[i].name = name THEN NameDuplicate
    ELSE ""

\* Channels.validateChannelName: the message of the Error thrown, "" if none
validateChannelName(chs, name) ==
    IF Len(name) = 0 THEN NameEmpty
    ELSE IF Len(name) > MaxNameLength THEN NameTooLong
    ELSE IF ~MatchesNameRegex(name) THEN NameCharset
    ELSE IF \E i \in 1..Len(chs) : chs[i].name = name THEN NameDuplicate
    ELSE ""

\* issueNextChannelId without the increment
issueNextChannelIdNoIncrement(next) == [id |-> next, nextChannelId |-> next]

\* Channels.issueNextChannelId: return this.nextChannelId++
issueNextChannelId(next) == [id |-> next, nextChannelId |-> next + 1]

\* create without this.channels.set(channel.id, channel)
createWithoutSet(chs, next, name) ==
    LET err == validateChannelName(chs, name)
        iss == issueNextChannelId(next)
        channel == [id |-> iss.id, name |-> name, messages |-> <<>>]
    IN IF err # ""
       THEN [error |-> err, channels |-> chs, nextChannelId |-> next, channel |-> NoChannel]
       ELSE [error |-> "", channels |-> chs,
             nextChannelId |-> iss.nextChannelId, channel |-> channel]

\* create issuing the id before it validates the name
createConsumesIdOnFailure(chs, next, name) ==
    LET err == validateChannelName(chs, name)
        iss == issueNextChannelId(next)
        channel == [id |-> iss.id, name |-> name, messages |-> <<>>]
    IN IF err # ""
       THEN [error |-> err, channels |-> chs, nextChannelId |-> iss.nextChannelId,
             channel |-> NoChannel]
       ELSE [error |-> "", channels |-> MapSet(chs, channel),
             nextChannelId |-> iss.nextChannelId, channel |-> channel]

\* Channels.create
create(chs, next, name) ==
    LET err == validateChannelName(chs, name)
        iss == issueNextChannelId(next)
        channel == [id |-> iss.id, name |-> name, messages |-> <<>>]
    IN IF err # ""
       THEN [error |-> err, channels |-> chs, nextChannelId |-> next, channel |-> NoChannel]
       ELSE [error |-> "", channels |-> MapSet(chs, channel),
             nextChannelId |-> iss.nextChannelId, channel |-> channel]

\* changeName building the new record without the old one's messages
changeNameDropsHistory(chs, id, name) ==
    LET channel == MapGet(chs, id)
        err == validateChannelName(chs, name)
        newChannel == [id |-> channel.id, name |-> name, messages |-> <<>>]
    IN IF channel = NoChannel
       THEN [error |-> ChannelMissing, channels |-> chs, channel |-> NoChannel]
       ELSE IF err # ""
       THEN [error |-> err, channels |-> chs, channel |-> NoChannel]
       ELSE [error |-> "", channels |-> MapSet(chs, newChannel), channel |-> newChannel]

\* changeName checking the new name against the other channels only
changeNameExcludesSelf(chs, id, name) ==
    LET channel == MapGet(chs, id)
        err == validateChannelName(SelectSeq(chs, LAMBDA c : c.id # channel.id), name)
        newChannel == [channel EXCEPT !.name = name]
    IN IF channel = NoChannel
       THEN [error |-> ChannelMissing, channels |-> chs, channel |-> NoChannel]
       ELSE IF err # ""
       THEN [error |-> err, channels |-> chs, channel |-> NoChannel]
       ELSE [error |-> "", channels |-> MapSet(chs, newChannel), channel |-> newChannel]

\* Channels.changeName
changeName(chs, id, name) ==
    LET channel == MapGet(chs, id)
        err == validateChannelName(chs, name)
        newChannel == [channel EXCEPT !.name = name]
    IN IF channel = NoChannel
       THEN [error |-> ChannelMissing, channels |-> chs, channel |-> NoChannel]
       ELSE IF err # ""
       THEN [error |-> err, channels |-> chs, channel |-> NoChannel]
       ELSE [error |-> "", channels |-> MapSet(chs, newChannel), channel |-> newChannel]

\* Channels.getChannel
getChannel(chs, id) == MapGet(chs, id)

\* Channels.getAllChannels: [...this.channels.values()]
getAllChannels(chs) == chs

\* deleteChannel that removes nothing
deleteChannelNoop(chs, id) == chs

\* deleteChannel that removes the oldest channel, whatever the id
deleteChannelDropsFirst(chs, id) == IF chs = <<>> THEN chs ELSE Tail(chs)

\* Channels.deleteChannel
deleteChannel(chs, id) == MapDelete(chs, id)

(***************************************************************************)
(* assertChannelName: the message of the Error thrown, "" if none.         *)
(***************************************************************************)
NameMissing == "name parameter is missing"
NameNotString == "name parameter is not a string value"
NameRequired == "please enter a channel name"

\* src/src/index.ts
assertChannelNameStrict(name) ==
    IF TypeOf(name) = "undefined" THEN NameMissing
    ELSE IF TypeOf(name) # "string" THEN NameNotString
    ELSE ""

\* src/unnamed/part_000
assertChannelNameMinimal(name) ==
    IF TypeOf(name) = "undefined" THEN NameMissing
    ELSE IF TypeOf(name) # "string" THEN NameNotString
    ELSE IF Len(name.s) = 0 THEN NameRequired
    ELSE ""

(***************************************************************************)
(* Number(idString) for the :id path segment: a string of decimal digits   *)
(* is that integer, digits followed by ".5" is that integer and a half,    *)
(* any other text of the inputs below is NaN.                              *)
(***************************************************************************)
DigitValue(c) == CHOOSE d \in 0..9 : ToString(d) = c

RECURSIVE DecimalValue(_)
DecimalValue(s) ==
    IF Len(s) = 0 THEN 0
    ELSE 10 * DecimalValue(SubSeq(s, 1, Len(s) - 1)) + DigitValue(s[Len(s)])

AllDigits(s) == Len(s) > 0 /\ \A i \in 1..Len(s) : s[i] \in Digits

NumberOf(s) ==
    IF AllDigits(s) THEN Num(DecimalValue(s))
    ELSE IF Len(s) > 2 /\ AllDigits(SubSeq(s, 1, Len(s) - 2))
            /\ SubSeq(s, Len(s) - 1, Len(s)) = <<".", "5">>
    THEN Half(2 * DecimalValue(SubSeq(s, 1, Len(s) - 2)) + 1)
    ELSE NaN

(***************************************************************************)
(* Websocket frames.  A frame is a text: either not JSON at all, or the    *)
(* JSON text of a value.  `canonical` says whether the text is exactly     *)
(* what JSON.stringify prints for its value (no optional whitespace, no    *)
(* number written as 1.0 or 1e0): parsing forgets it, printing sets it.    *)
(* A value is a non-object or an object; of an object the four properties  *)
(* the server reads are kept, `message` (the property of an error object)  *)
(* and `extra` (whether it has other properties as well).                  *)
(***************************************************************************)
Obj(type, channelId, userName, text, extra) ==
    [isObject |-> TRUE, type |-> type, channelId |-> channelId,
     userName |-> userName, text |-> text, message |-> "", extra |-> extra]

\* { type: 'error', message }
ErrorObj(message) ==
    [isObject |-> TRUE, type |-> "error", channelId |-> Undefined,
     userName |-> Undefined, text |-> Undefined, message |-> message, extra |-> FALSE]

\* a JSON value that is not an object, such as 7 or null
NonObject ==
    [isObject |-> FALSE, type |-> "undefined", channelId |-> Undefined,
     userName |-> Undefined, text |-> Undefined, message |-> "", extra |-> FALSE]

JsonText(canonical, data) == [wellFormed |-> TRUE, canonical |-> canonical, data |-> data]
Malformed == [wellFormed |-> FALSE, canonical |-> FALSE, data |-> NonObject]

ParseErrorMessage == "Unexpected token in JSON"

\* JSON.parse: `error` is the message of the SyntaxError thrown, "" if none
JSONparse(rawData) ==
    IF rawData.wellFormed
    THEN [error |-> "", data |-> rawData.data]
    ELSE [error |-> ParseErrorMessage, data |-> NonObject]

\* JSON.stringify
JSONstringify(data) == JsonText(TRUE, data)

\* isNewMessage
isNewMessage(value) ==
    /\ value.isObject
    /\ value.type = "message"
    /\ TypeOf(value.channelId) = "number"
    /\ TypeOf(value.userName) = "string"
    /\ TypeOf(value.text) = "string"

InvalidFormat == "Invalid message format"
UserNameEmpty == "Message userName must be longer than 0 character"
TextEmpty == "Message text must be longer than 0 character"
ChannelNotFound == "Channel not found"

NoFrames(cl) == [i \in 1..Len(cl) |-> <<>>]

\* ctx.websocket.send(frame), the socket at position c
SendTo(out, c, frame) == [out EXCEPT ![c] = Append(@, frame)]

(***************************************************************************)
(* app.ws.server.clients.forEach(client => client.send(frame)).            *)
(* send is called without a callback and outside any try/catch.  On a      *)
(* socket that is not OPEN it either drops the frame silently or throws    *)
(* "WebSocket is not open", depending on the release of the ws library the *)
(* build resolves; `throws` is that choice.  A throw leaves forEach: the   *)
(* clients after the failing one are not visited.                          *)
(***************************************************************************)
RECURSIVE forEachSend(_, _, _, _, _)
forEachSend(cl, i, frame, throws, out) ==
    IF i > Len(cl) THEN [sent |-> out, uncaught |-> FALSE]
    ELSE IF cl[i] # "OPEN"
    THEN IF throws THEN [sent |-> out, uncaught |-> TRUE]
         ELSE forEachSend(cl, i + 1, frame, throws, out)
    ELSE forEachSend(cl, i + 1, frame, throws, SendTo(out, i, frame))

(***************************************************************************)
(* The websocket 'message' handler, as a function of the state it reads.   *)
(* The code is the same in both variants.                                  *)
(***************************************************************************)
\* the error frame sent to every client instead of the sender
RejectToAll(chs, cl, c, message) ==
    [channels |-> chs,
     sent |-> [i \in 1..Len(cl) |-> <<JSONstringify(ErrorObj(message))>>],
     accepted |-> FALSE, uncaught |-> FALSE]

\* ctx.websocket.send(JSON.stringify({ type: 'error', message })); return
Reject(chs, cl, c, message) ==
    [channels |-> chs, sent |-> SendTo(NoFrames(cl), c, JSONstringify(ErrorObj(message))),
     accepted |-> FALSE, uncaught |-> FALSE]

\* the handler without its channel lookup: a message for no channel is fanned out
onMessageNoLookup(chs, cl, c, rawData, throws) ==
    LET parsed == JSONparse(rawData)
        data == parsed.data
        channel == getChannel(chs, data.channelId)
        pushed == [channel EXCEPT !.messages =
                       Append(@, [userName |-> data.userName.s, text |-> data.text.s])]
        fanOut == forEachSend(cl, 1, JSONstringify(data), throws, NoFrames(cl))
    IN IF parsed.error # "" THEN Reject(chs, cl, c, parsed.error)
       ELSE IF ~isNewMessage(data) THEN Reject(chs, cl, c, InvalidFormat)
       ELSE IF Len(data.userName.s) < 1 THEN Reject(chs, cl, c, UserNameEmpty)
       ELSE IF Len(data.text.s) < 1 THEN Reject(chs, cl, c, TextEmpty)
       ELSE IF channel = NoChannel
       THEN [channels |-> chs, sent |-> fanOut.sent,
             accepted |-> FALSE, uncaught |-> fanOut.uncaught]
       ELSE [channels |-> MapSet(chs, pushed), sent |-> fanOut.sent,
             accepted |-> TRUE, uncaught |-> fanOut.uncaught]

\* the handler pushing without the existence check, so that a message for a channel
\* that is not live is appended to a record of its own and fanned out
onMessageAppendsUnchecked(chs, cl, c, rawData, throws) ==
    LET parsed == JSONparse(rawData)
        data == parsed.data
        found == getChannel(chs, data.channelId)
        channel == IF found = NoChannel
                   THEN [id |-> data.channelId.num, name |-> <<>>, messages |-> <<>>]
                   ELSE found
        pushed == [channel EXCEPT !.messages =
                       Append(@, [userName |-> data.userName.s, text |-> data.text.s])]
        fanOut == forEachSend(cl, 1, JSONstringify(data), throws, NoFrames(cl))
    IN IF parsed.error # "" THEN Reject(chs, cl, c, parsed.error)
       ELSE IF ~isNewMessage(data) THEN Reject(chs, cl, c, InvalidFormat)
       ELSE IF Len(data.userName.s) < 1 THEN Reject(chs, cl, c, UserNameEmpty)
       ELSE IF Len(data.text.s) < 1 THEN Reject(chs, cl, c, TextEmpty)
       ELSE [channels |-> MapSet(chs, pushed), sent |-> fanOut.sent,
             accepted |-> TRUE, uncaught |-> fanOut.uncaught]

\* the handler putting the new entry first in the history (unshift for push)
onMessagePrepends(chs, cl, c, rawData, throws) ==
    LET parsed == JSONparse(rawData)
        data == parsed.data
        channel == getChannel(chs, data.channelId)
        pushed == [channel EXCEPT !.messages =
                       <<[userName |-> data.userName.s, text |-> data.text.s]>> \o @]
        fanOut == forEachSend(cl, 1, JSONstringify(data), throws, NoFrames(cl))
    IN IF parsed.error # "" THEN Reject(chs, cl, c, parsed.error)
       ELSE IF ~isNewMessage(data) THEN Reject(chs, cl, c, InvalidFormat)
       ELSE IF Len(data.userName.s) < 1 THEN Reject(chs, cl, c, UserNameEmpty)
       ELSE IF Len(data.text.s) < 1 THEN Reject(chs, cl, c, TextEmpty)
       ELSE IF channel = NoChannel THEN Reject(chs, cl, c, ChannelNotFound)
       ELSE [channels |-> MapSet(chs, pushed), sent |-> fanOut.sent,
             accepted |-> TRUE, uncaught |-> fanOut.uncaught]

onMessage(chs, cl, c, rawData, throws) ==
    LET parsed == JSONparse(rawData)
        data == parsed.data
        channel == getChannel(chs, data.channelId)
        pushed == [channel EXCEPT !.messages =
                       Append(@, [userName |-> data.userName.s, text |-> data.text.s])]
        fanOut == forEachSend(cl, 1, JSONstringify(data), throws, NoFrames(cl))
    IN IF parsed.error # "" THEN Reject(chs, cl, c, parsed.error)
       ELSE IF ~isNewMessage(data) THEN Reject(chs, cl, c, InvalidFormat)
       ELSE IF Len(data.userName.s) < 1 THEN Reject(chs, cl, c, UserNameEmpty)
       ELSE IF Len(data.text.s) < 1 THEN Reject(chs, cl, c, TextEmpty)
       ELSE IF channel = NoChannel THEN Reject(chs, cl, c, ChannelNotFound)
       ELSE [channels |-> MapSet(chs, pushed), sent |-> fanOut.sent,
             accepted |-> TRUE, uncaught |-> fanOut.uncaught]

(***************************************************************************)
(* Inputs of the requests.                                                 *)
(***************************************************************************)
al == <<"a","l">>
hi == <<"h","i">>
yo == <<"y","o">>
longest == NameOfLength(MaxNameLength)

\* ctx.request.body.name
NameInputs ==
    {Undefined, Num(7), Str(<<>>), Str(general), Str(General), Str(aSpaceB),
     Str(longest), Str(NameOfLength(MaxNameLength + 1))}

\* ctx.request.body.name of the requests sent to the minimal variant
MinimalNameInputs == {Undefined, Num(7), Str(<<>>), Str(general)}

\* the :id path segment
IdStrings == {<<ToString(i)>> : i \in 1..MaxChannelId} \cup {<<"1", ".", "5">>}

ChatMessage(i, t) == JsonText(TRUE, Obj("message", Num(i), Str(al), Str(t), FALSE))

\* rawData of a websocket 'message' event
FrameInputs ==
    {Malformed, JsonText(TRUE, NonObject)}
    \cup {ChatMessage(i, hi) : i \in 1..MaxChannelId}
    \cup {ChatMessage(1, yo)}
    \cup {JsonText(TRUE, d) : d \in
            {Obj("message", Num(1), Str(al), Undefined, FALSE),
             Obj("other", Num(1), Str(al), Str(hi), FALSE),
             Obj("undefined", Num(1), Str(al), Str(hi), FALSE),
             Obj("message", Str(<<"1">>), Str(al), Str(hi), FALSE),
             Obj("message", Half(3), Str(al), Str(hi), FALSE),
             Obj("message", Num(1), Num(7), Str(hi), FALSE),
             Obj("message", Num(1), Str(<<>>), Str(hi), FALSE),
             Obj("message", Num(1), Str(al), Str(<<>>), FALSE),
             Obj("message", Num(1), Str(<<>>), Str(<<>>), FALSE)}}
    \cup {JsonText(FALSE, Obj("message", Num(1), Str(al), Str(hi), TRUE))}

(***************************************************************************)
(* The request handled by a step and its response.  status is the HTTP     *)
(* status (0: not an HTTP request), channel and list are the JSON body,    *)
(* message the text of the error answered, conn the position in `clients`  *)
(* of the socket a websocket event is about.                               *)
(***************************************************************************)
NoRequest ==
    [op |-> "start", conn |-> 0, status |-> 0, message |-> "", channel |-> NoChannel,
     list |-> <<>>, accepted |-> FALSE, uncaught |-> FALSE]

\* ctx.throw(status, message), turned into the response by the error middleware
HttpError(req, status, message) == [req EXCEPT !.status = status, !.message = message]

\* ctx.body = channel
HttpChannel(req, channel) == [req EXCEPT !.status = 200, !.channel = channel]

\* ctx.body = ''
HttpEmpty(req) == [req EXCEPT !.status = 200]

TotalMessages(chs) ==
    LET RECURSIVE Sum(_)
        Sum(i) == IF i = 0 THEN 0 ELSE Len(chs[i].messages) + Sum(i - 1)
    IN Sum(Len(chs))

(***************************************************************************)
(* Start of the process: the counter at 1, then the two seed channels.     *)
(***************************************************************************)
Seeded ==
    LET g == create(<<>>, 1, general)
    IN create(g.channels, g.nextChannelId, random)

Start ==
    /\ channels = Seeded.channels
    /\ nextChannelId = Seeded.nextChannelId
    /\ clients = <<>>
    /\ last = NoRequest
    /\ sent = <<>>
    /\ issued = {Seeded.channels[i].id : i \in 1..Len(Seeded.channels)}
    /\ deleted = {}

(***************************************************************************)
(* Strict variant: the HTTP handlers of src/src/index.ts.                  *)
(***************************************************************************)
PostChannelsStrict(name) ==
    LET req == [NoRequest EXCEPT !.op = "create"]
        bad == assertChannelNameStrict(name)
        r == create(channels, nextChannelId, name.s)
    IN /\ variant = "strict"
       /\ bad = "" /\ r.error = "" => nextChannelId <= MaxChannelId
       /\ IF bad # ""
          THEN /\ last' = HttpError(req, 400, bad)
               /\ UNCHANGED <<channels, nextChannelId, issued>>
          ELSE IF r.error # ""
          THEN /\ last' = HttpError(req, 400, r.error)
               /\ channels' = r.channels
               /\ nextChannelId' = r.nextChannelId
               /\ UNCHANGED issued
          ELSE /\ last' = HttpChannel(req, r.channel)
               /\ channels' = r.channels
               /\ nextChannelId' = r.nextChannelId
               /\ issued' = issued \cup {r.channel.id}
       /\ sent' = NoFrames(clients)
       /\ UNCHANGED <<variant, clients, deleted>>

GetChannelsStrict ==
    /\ variant = "strict"
    /\ last' = [NoRequest EXCEPT !.op = "list", !.status = 200,
                                 !.list = getAllChannels(channels)]
    /\ sent' = NoFrames(clients)
    /\ UNCHANGED <<variant, channels, nextChannelId, clients, issued, deleted>>

\* the PATCH handler validating the name before it looks the channel up
PatchChannelStrictValidatesFirst(idString, newName) ==
    LET id == NumberOf(idString)
        req == [NoRequest EXCEPT !.op = "rename"]
        channel == getChannel(channels, id)
        bad == assertChannelNameStrict(newName)
        r == changeName(channels, id, newName.s)
    IN /\ variant = "strict"
       /\ IF bad # ""
          THEN /\ last' = HttpError(req, 400, bad)
               /\ UNCHANGED channels
          ELSE IF channel = NoChannel
          THEN /\ last' = HttpError(req, 404, ChannelNotFound)
               /\ UNCHANGED channels
          ELSE IF r.error # ""
          THEN /\ last' = HttpError(req, 400, r.error)
               /\ channels' = r.channels
          ELSE /\ last' = HttpChannel(req, r.channel)
               /\ channels' = r.channels
       /\ sent' = NoFrames(clients)
       /\ UNCHANGED <<variant, nextChannelId, clients, issued, deleted>>

PatchChannelStrict(idString, newName) ==
    LET id == NumberOf(idString)
        req == [NoRequest EXCEPT !.op = "rename"]
        channel == getChannel(channels, id)
        bad == assertChannelNameStrict(newName)
        r == changeName(channels, id, newName.s)
    IN /\ variant = "strict"
       /\ IF channel = NoChannel
          THEN /\ last' = HttpError(req, 404, ChannelNotFound)
               /\ UNCHANGED channels
          ELSE IF bad # ""
          THEN /\ last' = HttpError(req, 400, bad)
               /\ UNCHANGED channels
          ELSE IF r.error # ""
          THEN /\ last' = HttpError(req, 400, r.error)
               /\ channels' = r.channels
          ELSE /\ last' = HttpChannel(req, r.channel)
               /\ channels' = r.channels
       /\ sent' = NoFrames(clients)
       /\ UNCHANGED <<variant, nextChannelId, clients, issued, deleted>>

DeleteChannelStrict(idString) ==
    LET id == NumberOf(idString)
        req == [NoRequest EXCEPT !.op = "delete"]
        channel == getChannel(channels, id)
    IN /\ variant = "strict"
       /\ IF channel = NoChannel
          THEN /\ last' = HttpError(req, 404, ChannelNotFound)
               /\ UNCHANGED <<channels, deleted>>
          ELSE /\ last' = HttpEmpty(req)
               /\ channels' = deleteChannel(channels, id)
               /\ deleted' = deleted \cup {channel.id}
       /\ sent' = NoFrames(clients)
       /\ UNCHANGED <<variant, nextChannelId, clients, issued>>

(***************************************************************************)
(* Minimal variant: the HTTP handlers of src/unnamed/part_000.             *)
(***************************************************************************)
PostChannelsMinimal(name) ==
    LET req == [NoRequest EXCEPT !.op = "create"]
        bad == assertChannelNameMinimal(name)
        iss == issueNextChannelId(nextChannelId)
        channel == [id |-> iss.id, name |-> name.s, messages |-> <<>>]
    IN /\ variant = "minimal"
       /\ bad = "" => nextChannelId <= MaxChannelId
       /\ IF bad # ""
          THEN /\ last' = HttpError(req, 400, bad)
               /\ UNCHANGED <<channels, nextChannelId, issued>>
          ELSE /\ last' = HttpChannel(req, channel)
               /\ channels' = MapSet(channels, channel)
               /\ nextChannelId' = iss.nextChannelId
               /\ issued' = issued \cup {channel.id}
       /\ sent' = NoFrames(clients)
       /\ UNCHANGED <<variant, clients, deleted>>

GetChannelsMinimal ==
    /\ variant = "minimal"
    /\ last' = [NoRequest EXCEPT !.op = "list", !.status = 200, !.list = channels]
    /\ sent' = NoFrames(clients)
    /\ UNCHANGED <<variant, channels, nextChannelId, clients, issued, deleted>>

PatchChannelMinimal(idString, newName) ==
    LET id == NumberOf(idString)
        req == [NoRequest EXCEPT !.op = "rename"]
        channel == MapGet(channels, id)
        bad == assertChannelNameMinimal(newName)
    IN /\ variant = "minimal"
       /\ IF channel = NoChannel
          THEN /\ last' = HttpError(req, 404, ChannelNotFound)
               /\ UNCHANGED channels
          ELSE IF bad # ""
          THEN /\ last' = HttpError(req, 400, bad)
               /\ UNCHANGED channels
          ELSE /\ last' = HttpEmpty(req)
               /\ channels' = MapSet(channels, [channel EXCEPT !.name = newName.s])
       /\ sent' = NoFrames(clients)
       /\ UNCHANGED <<variant, nextChannelId, clients, issued, deleted>>

DeleteChannelMinimal(idString) ==
    LET id == NumberOf(idString)
        req == [NoRequest EXCEPT !.op = "delete"]
        channel == MapGet(channels, id)
    IN /\ variant = "minimal"
       /\ IF channel = NoChannel
          THEN /\ last' = HttpError(req, 404, ChannelNotFound)
               /\ UNCHANGED <<channels, deleted>>
          ELSE /\ last' = HttpEmpty(req)
               /\ channels' = MapDelete(channels, id)
               /\ deleted' = deleted \cup {channel.id}
       /\ sent' = NoFrames(clients)
       /\ UNCHANGED <<variant, nextChannelId, clients, issued>>

(***************************************************************************)
(* Websocket connections and the 'message' handler (both variants).        *)
(***************************************************************************)
\* a client connects to /messages: the server adds its socket to `clients`
Connect ==
    /\ Len(clients) < NumConns
    /\ clients' = Append(clients, "OPEN")
    /\ last' = [NoRequest EXCEPT !.op = "connect", !.conn = Len(clients) + 1]
    /\ sent' = NoFrames(clients')
    /\ UNCHANGED <<variant, channels, nextChannelId, issued, deleted>>

\* a socket leaves the OPEN state (close frame received, connection lost);
\* it stays in `clients` until its 'close' event
StartClose(c) ==
    /\ c \in 1..Len(clients)
    /\ clients[c] = "OPEN"
    /\ clients' = [clients EXCEPT ![c] = "CLOSING"]
    /\ last' = [NoRequest EXCEPT !.op = "closing", !.conn = c]
    /\ sent' = NoFrames(clients')
    /\ UNCHANGED <<variant, channels, nextChannelId, issued, deleted>>

\* the socket's 'close' event: the server removes it from `clients`
Disconnect(c) ==
    /\ c \in 1..Len(clients)
    /\ clients[c] = "CLOSING"
    /\ clients' = [i \in 1..(Len(clients) - 1) |-> IF i < c THEN clients[i] ELSE clients[i + 1]]
    /\ last' = [NoRequest EXCEPT !.op = "disconnect", !.conn = c]
    /\ sent' = NoFrames(clients')
    /\ UNCHANGED <<variant, channels, nextChannelId, issued, deleted>>

\* ctx.websocket.on('message', rawData => ...) on the open socket at position c;
\* `throws` is chosen only where a send to a socket that is not OPEN is reached
OnMessage(c, rawData, throws) ==
    LET r == onMessage(channels, clients, c, rawData, throws)
    IN /\ c \in 1..Len(clients)
       /\ clients[c] = "OPEN"
       /\ r.accepted => TotalMessages(channels) < MaxMessages
       /\ throws => r.uncaught
       /\ channels' = r.channels
       /\ sent' = r.sent
       /\ last' = [NoRequest EXCEPT !.op = "message", !.conn = c,
                                    !.accepted = r.accepted, !.uncaught = r.uncaught]
       /\ UNCHANGED <<variant, nextChannelId, clients, issued, deleted>>

(***************************************************************************)
(* Spec: either server seen from its registry.  Every HTTP request with    *)
(* every input (fewer names for the minimal variant, which accepts more of *)
(* them); one websocket client whose well-formed message is the first of   *)
(* the histories.                                                          *)
(***************************************************************************)
Init == variant \in {"strict", "minimal"} /\ Start

ConnectFirst == clients = <<>> /\ Connect

Next ==
    \/ \E name \in NameInputs : PostChannelsStrict(name)
    \/ GetChannelsStrict
    \/ \E idString \in IdStrings, newName \in NameInputs : PatchChannelStrict(idString, newName)
    \/ \E idString \in IdStrings : DeleteChannelStrict(idString)
    \/ \E name \in MinimalNameInputs : PostChannelsMinimal(name)
    \/ GetChannelsMinimal
    \/ \E idString \in IdStrings, newName \in MinimalNameInputs :
           PatchChannelMinimal(idString, newName)
    \/ \E idString \in IdStrings : DeleteChannelMinimal(idString)
    \/ ConnectFirst
    \/ \E i \in 1..MaxChannelId :
           TotalMessages(channels) = 0 /\ OnMessage(1, ChatMessage(i, hi), FALSE)

Spec == Init /\ [][Next]_vars

(***************************************************************************)
(* SpecChat: either server seen from its websocket clients.  Every frame   *)
(* on every connection, connections coming and going; of the registry the  *)
(* seed channels and their deletion.                                       *)
(***************************************************************************)
InitChat == variant \in {"strict", "minimal"} /\ Start

NextChat ==
    \/ \E idString \in IdStrings : DeleteChannelStrict(idString)
    \/ \E idString \in IdStrings : DeleteChannelMinimal(idString)
    \/ Connect
    \/ \E c \in 1..NumConns : StartClose(c)
    \/ \E c \in 1..NumConns : Disconnect(c)
    \/ \E c \in 1..NumConns, rawData \in FrameInputs, throws \in BOOLEAN :
           OnMessage(c, rawData, throws)

SpecChat == InitChat /\ [][NextChat]_vars

(***************************************************************************)
(* SpecHistory: either server seen from the history of its channels.  Chat *)
(* messages of two texts on every connection, interleaved with renames and *)
(* deletes of the channels they are for, connections coming and going.     *)
(***************************************************************************)
InitHistory == variant \in {"strict", "minimal"} /\ Start

\* rawData of the well-formed messages: two texts for channel 1, one for channel 2
HistoryFrames == {ChatMessage(1, hi), ChatMessage(1, yo), ChatMessage(2, hi)}

NextHistory ==
    \/ \E idString \in IdStrings : PatchChannelStrict(idString, Str(General))
    \/ \E idString \in IdStrings : PatchChannelMinimal(idString, Str(general))
    \/ \E idString \in IdStrings : DeleteChannelStrict(idString)
    \/ \E idString \in IdStrings : DeleteChannelMinimal(idString)
    \/ Connect
    \/ \E c \in 1..NumConns : StartClose(c)
    \/ \E c \in 1..NumConns : Disconnect(c)
    \/ \E c \in 1..NumConns, rawData \in HistoryFrames, throws \in BOOLEAN :
           OnMessage(c, rawData, throws)

SpecHistory == InitHistory /\ [][NextHistory]_vars

(***************************************************************************)
(* SpecHttpErrors: either server seen from the answers of PATCH and        *)
(* DELETE.  Every id and every body name of these requests; of POST one    *)
(* name that is accepted.                                                  *)
(***************************************************************************)
InitHttpErrors == variant \in {"strict", "minimal"} /\ Start

NextHttpErrors ==
    \/ PostChannelsStrict(Str(longest))
    \/ PostChannelsMinimal(Str(general))
    \/ \E idString \in IdStrings, newName \in NameInputs : PatchChannelStrict(idString, newName)
    \/ \E idString \in IdStrings, newName \in MinimalNameInputs :
           PatchChannelMinimal(idString, newName)
    \/ \E idString \in IdStrings : DeleteChannelStrict(idString)
    \/ \E idString \in IdStrings : DeleteChannelMinimal(idString)

SpecHttpErrors == InitHttpErrors /\ [][NextHttpErrors]_vars

(***************************************************************************)
(* Vocabulary of the claims.                                               *)
(***************************************************************************)
LiveIds(chs) == {chs[i].id : i \in 1..Len(chs)}
LiveNames(chs) == {chs[i].name : i \in 1..Len(chs)}

\* a name the strict variant is meant to accept, whatever the live channels
WellFormedName(name) ==
    /\ Len(name) >= 1
    /\ Len(name) <= 15
    /\ \A k \in 1..Len(name) : name[k] \in NameChars

CreateSucceeded(l) == l.op = "create" /\ l.status = 200
CreateFailed(l) == l.op = "create" /\ l.status = 400
RenameSucceeded(l) == l.op = "rename" /\ l.status = 200
DeleteSucceeded(l) == l.op = "delete" /\ l.status = 200

(***************************************************************************)
(* C1: in the strict variant every live channel's name has 1 to 15         *)
(* characters, all of them in [A-Za-z0-9_-], and no two live channels have *)
(* the same name (exact, case-sensitive comparison), in every reachable    *)
(* state.                                                                  *)
(***************************************************************************)
C1_NamesValidAndUnique ==
    variant = "strict" =>
        \A i \in 1..Len(channels) :
            /\ WellFormedName(channels[i].name)
            /\ \A j \in 1..Len(channels) : channels[j].name = channels[i].name => j = i

\* after a create, a rename and a chat message: names differing only in case live together
C1_Witness ==
    /\ variant = "strict"
    /\ {general, General, longest} \subseteq LiveNames(channels)
    /\ TotalMessages(channels) > 0

(***************************************************************************)
(* C2: ids are never reused.  The id a successful create returns is        *)
(* greater than every id issued before it, the ids of deleted channels     *)
(* included, and the live channels have pairwise distinct ids.  Handlers   *)
(* run one at a time, so concurrent creates are some sequence of creates.  *)
(***************************************************************************)
C2_IdsNeverReused ==
    /\ [](\A i, j \in 1..Len(channels) : channels[i].id = channels[j].id => i = j)
    /\ [][CreateSucceeded(last') =>
              /\ \A old \in issued \cup deleted \cup LiveIds(channels) : last'.channel.id > old
              /\ last'.channel.id \in LiveIds(channels')]_vars

\* a create that succeeded after some channel had been deleted
C2_Witness == CreateSucceeded(last) /\ deleted # {}

(***************************************************************************)
(* Vocabulary of the claims about websocket frames, stated on the frame    *)
(* itself and not through the handler's own checks.                        *)
(***************************************************************************)
\* the text is JSON of the shape {type:"message", channelId: number, userName, text: string}
HasMessageShape(rawData) ==
    /\ rawData.wellFormed
    /\ rawData.data.isObject
    /\ rawData.data.type = "message"
    /\ rawData.data.channelId.t = "number"
    /\ rawData.data.userName.t = "string"
    /\ rawData.data.text.t = "string"

NonEmptyFields(rawData) == rawData.data.userName.s # <<>> /\ rawData.data.text.s # <<>>

RefersToLive(rawData, chs) ==
    rawData.data.channelId.den = 1 /\ rawData.data.channelId.num \in LiveIds(chs)

\* well-formed, non-empty userName and text, for a live channel
ValidFor(rawData, chs) ==
    HasMessageShape(rawData) /\ NonEmptyFields(rawData) /\ RefersToLive(rawData, chs)

\* malformed JSON, or not of the shape, or an empty userName or text
BadFrame(rawData) == ~HasMessageShape(rawData) \/ ~NonEmptyFields(rawData)

IsErrorFrame(frame) ==
    /\ frame.wellFormed
    /\ frame.data.isObject
    /\ frame.data.type = "error"
    /\ frame.data.message # ""

\* the frame carries the payload of rawData: it parses to the same value
CarriesPayload(frame, rawData) == frame.wellFormed /\ frame.data = rawData.data

\* only the socket at position c got anything, and it got exactly one frame
OnlyTo(out, c) ==
    \A i \in 1..Len(out) : Len(out[i]) = (IF i = c THEN 1 ELSE 0)

C4_UnknownChannel ==
    [][last'.op = "message" =>
       \A c \in {last'.conn}, rawData \in FrameInputs :
           (/\ HasMessageShape(rawData) /\ NonEmptyFields(rawData)
            /\ ~RefersToLive(rawData, channels)
            /\ OnMessage(c, rawData, FALSE)) =>
               /\ channels' = channels
               /\ nextChannelId' = nextChannelId
               /\ OnlyTo(sent', c)
               /\ IsErrorFrame(sent'[c][1])
               /\ sent'[c][1].data.message = ChannelNotFound]_vars

\* "Channel not found" answered to the second of two clients once a channel was deleted
C4_Witness ==
    /\ last.op = "message" /\ ~last.accepted /\ last.conn = 2
    /\ Len(clients) = 2
    /\ sent = <<<<>>, <<JSONstringify(ErrorObj(ChannelNotFound))>>>>
    /\ deleted # {}

(***************************************************************************)
(* C5: a frame that is malformed JSON, or not of the message shape, or has *)
(* an empty userName or text, is answered with exactly one error frame     *)
(* {type:"error", message} to the sender only; nothing is delivered to any *)
(* other connection, the registry and every history are unchanged, and the *)
(* connection stays open: a valid message sent on it next is accepted (no  *)
(* open connection is ever in a state that refuses a valid message).       *)
(***************************************************************************)
C5_BadFrame ==
    /\ [][last'.op = "message" =>
          \A c \in {last'.conn}, rawData \in FrameInputs :
           BadFrame(rawData) /\ OnMessage(c, rawData, FALSE) =>
               /\ channels' = channels
               /\ nextChannelId' = nextChannelId
               /\ OnlyTo(sent', c)
               /\ IsErrorFrame(sent'[c][1])
               /\ clients' = clients
               /\ clients'[c] = "OPEN"]_vars
    /\ [](\A c \in 1..Len(clients), next \in FrameInputs :
              clients[c] = "OPEN" /\ ValidFor(next, channels) =>
                  onMessage(channels, clients, c, next, FALSE).accepted)

\* "Invalid message format" answered to the first of two clients
C5_Witness ==
    /\ last.op = "message" /\ ~last.accepted /\ last.conn = 1
    /\ Len(clients) = 2
    /\ sent = <<<<JSONstringify(ErrorObj(InvalidFormat))>>, <<>>>>
    /\ channels # <<>>

(***************************************************************************)
(* C6: in the strict variant a create whose name is empty, longer than 15  *)
(* characters, holds a character outside [A-Za-z0-9_-], or is the name of  *)
(* a live channel fails with a validation error (400), and the registry    *)
(* holds the same channels, names and histories as before.                 *)
(***************************************************************************)
C6_CreateRejected ==
    [][last'.op = "create" =>
       \A name \in NameInputs :
           (/\ name.t = "string"
            /\ (~WellFormedName(name.s) \/ name.s \in LiveNames(channels))
            /\ PostChannelsStrict(name)) =>
               /\ CreateFailed(last')
               /\ last'.message \in {NameEmpty, NameTooLong, NameCharset, NameDuplicate}
               /\ last'.channel = NoChannel
               /\ channels' = channels]_vars

\* a create refused for a duplicate name while a third channel is live
C6_Witness ==
    /\ CreateFailed(last) /\ last.message = NameDuplicate
    /\ Len(channels) = 3

(***************************************************************************)
(* C7: for a name N of 1 to 15 characters of [A-Za-z0-9_-], create(N)      *)
(* followed by get of the returned id returns the channel named N with an  *)
(* empty history.  (create returns an id exactly when N is not the name of *)
(* a live channel.)                                                        *)
(***************************************************************************)
C7_CreateThenGet ==
    [][last'.op = "create" =>
       \A name \in NameInputs :
           (/\ name.t = "string" /\ WellFormedName(name.s)
            /\ PostChannelsStrict(name)) =>
               /\ CreateSucceeded(last') <=> name.s \notin LiveNames(channels)
               /\ CreateSucceeded(last') =>
                      /\ last'.channel.id >= 1
                      /\ getChannel(channels', Num(last'.channel.id)) =
                             [id |-> last'.channel.id, name |-> name.s, messages |-> <<>>]]_vars

\* create of the 15-character name has returned the channel
C7_Witness ==
    /\ CreateSucceeded(last)
    /\ last.channel.name = longest
    /\ getChannel(channels, Num(last.channel.id)) = last.channel

(***************************************************************************)
(* C8: once a channel is deleted, no list and no get of its id returns it  *)
(* again; right after the delete a create with the deleted channel's name  *)
(* succeeds, and a channel created later has an id never issued before and *)
(* an empty history.                                                       *)
(***************************************************************************)
C8_DeletedStaysDeleted ==
    /\ [](\A id \in deleted :
              /\ getChannel(channels, Num(id)) = NoChannel
              /\ \A i \in 1..Len(getAllChannels(channels)) : getAllChannels(channels)[i].id # id
              /\ \A i \in 1..Len(last.list) : last.list[i].id # id)
    /\ [][DeleteSucceeded(last') =>
          \A idString \in IdStrings :
              DeleteChannelStrict(idString) =>
                  LET gone == getChannel(channels, NumberOf(idString))
                      again == create(channels', nextChannelId', gone.name)
                  IN /\ gone.id \in deleted'
                     /\ again.error = ""
                     /\ again.channel.id \notin issued \cup deleted'
                     /\ again.channel.messages = <<>>]_vars
    /\ [][CreateSucceeded(last') =>
              /\ last'.channel.id \notin issued \cup deleted
              /\ last'.channel.messages = <<>>]_vars

\* general, deleted with a message in its history, was created again under a new id
C8_Witness ==
    /\ CreateSucceeded(last)
    /\ last.channel.name = general
    /\ 1 \in deleted
    /\ last.channel.id = 3
    /\ last.channel.messages = <<>>

\* chs2 is chs with the channel id renamed to name and nothing else changed
RenamedOnly(chs, chs2, id, name) ==
    LET old == MapGet(chs, id)
        new == MapGet(chs2, id)
    IN /\ old # NoChannel
       /\ new = [id |-> old.id, name |-> name, messages |-> old.messages]
       /\ Len(chs2) = Len(chs)
       /\ \A i \in 1..Len(chs) :
              IF chs[i].id = old.id THEN chs2[i] = new ELSE chs2[i] = chs[i]

(***************************************************************************)
(* C9: a successful rename changes only the name of that channel: its id,  *)
(* its history and its place are kept, get(id) returns the new name, the   *)
(* old name is free for create, and every other channel and the id counter *)
(* are unchanged.  Stated for the PATCH handler of either variant.         *)
(***************************************************************************)
C9_RenameFrame ==
    /\ [][RenameSucceeded(last') /\ variant = "strict" =>
          \A idString \in IdStrings, newName \in NameInputs :
              PatchChannelStrict(idString, newName) =>
                  /\ RenamedOnly(channels, channels', NumberOf(idString), newName.s)
                  /\ last'.channel = getChannel(channels', NumberOf(idString))
                  /\ nextChannelId' = nextChannelId
                  /\ create(channels', nextChannelId',
                            getChannel(channels, NumberOf(idString)).name).error = ""]_vars
    /\ [][RenameSucceeded(last') /\ variant = "minimal" =>
          \A idString \in IdStrings, newName \in MinimalNameInputs :
              PatchChannelMinimal(idString, newName) =>
                  /\ RenamedOnly(channels, channels', NumberOf(idString), newName.s)
                  /\ nextChannelId' = nextChannelId
                  /\ assertChannelNameMinimal(
                         Str(MapGet(channels, NumberOf(idString)).name)) = ""]_vars

\* a channel holding a message was renamed
C9_Witness ==
    /\ RenameSucceeded(last)
    /\ last.channel.messages # <<>>
    /\ Len(channels) > 1

Grown(chs, chs2) ==
    {id \in LiveIds(chs2) : MapGet(chs2, Num(id)).messages # MapGet(chs, Num(id)).messages}

\* the entry {userName, text} of a message payload
EntryOf(data) == [userName |-> data.userName.s, text |-> data.text.s]

(***************************************************************************)
(* C11: the existence check and the append are one atomic unit with        *)
(* respect to delete and rename.  In every step of every interleaving of   *)
(* messages, deletes and renames, a history changes only by an accepted    *)
(* message appending one entry to a channel that is live before and after  *)
(* the step, and every message frame broadcast is for a channel that was   *)
(* live when the step began and holds the frame's entry as the last of its *)
(* history.                                                                *)
(***************************************************************************)
C11_CheckThenAppendAtomic ==
    /\ [][\A id \in Grown(channels, channels') :
              LET before == MapGet(channels, Num(id))
                  after == MapGet(channels', Num(id))
              IN /\ id \in LiveIds(channels)
                 /\ last'.op = "message" /\ last'.accepted
                 /\ Len(after.messages) = Len(before.messages) + 1
                 /\ SubSeq(after.messages, 1, Len(before.messages)) = before.messages
                 /\ Grown(channels, channels') = {id}]_vars
    /\ [][\A i \in 1..Len(sent') : \A k \in 1..Len(sent'[i]) :
              ~IsErrorFrame(sent'[i][k]) =>
                  LET data == sent'[i][k].data
                      channel == MapGet(channels', data.channelId)
                  IN /\ last'.op = "message" /\ last'.accepted
                     /\ MapGet(channels, data.channelId) # NoChannel
                     /\ channel # NoChannel
                     /\ channel.messages # <<>>
                     /\ channel.messages[Len(channel.messages)] = EntryOf(data)]_vars

\* a second message accepted and broadcast for channel 1 after it was renamed and
\* channel 2 deleted
C11_Witness ==
    /\ last.op = "message" /\ last.accepted
    /\ 2 \in deleted
    /\ MapGet(channels, Num(1)).name = General
    /\ Len(MapGet(channels, Num(1)).messages) = 2
    /\ sent[last.conn] # <<>>

\* ids deleteChannel is called with: live, deleted, never issued, not an integer, NaN
DeleteKeys ==
    {NumberOf(idString) : idString \in IdStrings} \cup {Num(MaxChannelId + 1), NaN}

(***************************************************************************)
(* C12: deleteChannel is idempotent.  On an id that is not live it leaves  *)
(* the registry as it is (and does not throw: Map.delete returns false),   *)
(* and deleting an id twice gives the registry that deleting it once       *)
(* gives, for every registry the server reaches.                           *)
(***************************************************************************)
C12_DeleteIdempotent ==
    \A id \in DeleteKeys :
        /\ getChannel(channels, id) = NoChannel => deleteChannel(channels, id) = channels
        /\ deleteChannel(deleteChannel(channels, id), id) = deleteChannel(channels, id)

\* a DELETE has removed a channel from a registry that still holds another one:
\* deleteChannel of the removed id changes nothing
C12_Witness ==
    /\ DeleteSucceeded(last)
    /\ channels # <<>>
    /\ \E id \in deleted :
           /\ getChannel(channels, Num(id)) = NoChannel
           /\ deleteChannel(channels, Num(id)) = channels

\* the number of the path is not the id of a live channel
UnknownId(id, chs) == ~(id.t = "number" /\ id.den = 1 /\ id.num \in LiveIds(chs))

\* a body name the strict variant must refuse for a rename
InvalidForStrict(name, chs) ==
    name.t # "string" \/ ~WellFormedName(name.s) \/ name.s \in LiveNames(chs)

\* a body name the minimal variant must refuse
InvalidForMinimal(name) == name.t # "string" \/ name.s = <<>>

RegistryUnchanged == channels' = channels /\ nextChannelId' = nextChannelId

(***************************************************************************)
(* C13: at the HTTP surface of both variants a PATCH of an unknown id      *)
(* answers 404 whatever the body is, a PATCH of a known id with an invalid *)
(* name answers 400, a DELETE of an unknown id answers 404, so a DELETE of *)
(* an id deleted before answers 404; in each of these cases the registry   *)
(* is unchanged.  Stated per request: a step that does not answer so is    *)
(* not a step of the handler for such a request.                           *)
(***************************************************************************)
C13_HttpFailures ==
    /\ [][last'.op = "rename" /\ variant = "strict" =>
          \A idString \in IdStrings :
              LET unknown == UnknownId(NumberOf(idString), channels)
              IN \A newName \in NameInputs :
                     /\ (/\ ~(last'.status = 404 /\ RegistryUnchanged)
                         /\ unknown) =>
                            ~PatchChannelStrict(idString, newName)
                     /\ (/\ ~(last'.status = 400 /\ RegistryUnchanged)
                         /\ ~unknown
                         /\ InvalidForStrict(newName, channels)) =>
                            ~PatchChannelStrict(idString, newName)]_vars
    /\ [][last'.op = "rename" /\ variant = "minimal" =>
          \A idString \in IdStrings :
              LET unknown == UnknownId(NumberOf(idString), channels)
              IN \A newName \in MinimalNameInputs :
                     /\ (/\ ~(last'.status = 404 /\ RegistryUnchanged)
                         /\ unknown) =>
                            ~PatchChannelMinimal(idString, newName)
                     /\ (/\ ~(last'.status = 400 /\ RegistryUnchanged)
                         /\ ~unknown
                         /\ InvalidForMinimal(newName)) =>
                            ~PatchChannelMinimal(idString, newName)]_vars
    /\ [][last'.op = "delete" /\ variant = "strict" =>
          \A idString \in IdStrings :
              (/\ ~(last'.status = 404 /\ RegistryUnchanged /\ deleted' = deleted)
               /\ \/ UnknownId(NumberOf(idString), channels)
                  \/ NumberOf(idString).den = 1 /\ NumberOf(idString).num \in deleted) =>
                  ~DeleteChannelStrict(idString)]_vars
    /\ [][last'.op = "delete" /\ variant = "minimal" =>
          \A idString \in IdStrings :
              (/\ ~(last'.status = 404 /\ RegistryUnchanged /\ deleted' = deleted)
               /\ \/ UnknownId(NumberOf(idString), channels)
                  \/ NumberOf(idString).den = 1 /\ NumberOf(idString).num \in deleted) =>
                  ~DeleteChannelMinimal(idString)]_vars

\* a DELETE answered 404 once some channel had been deleted, another one still live
C13_Witness ==
    /\ last.op = "delete" /\ last.status = 404 /\ last.message = ChannelNotFound
    /\ deleted # {}
    /\ channels # <<>>

\* the greatest id of a non-empty set of ids
GreatestOf(ids) == CHOOSE m \in ids : \A x \in ids : x <= m

(***************************************************************************)
(* C14: the process starts with exactly two channels, general with id 1    *)
(* and random with id 2, both with an empty history.  The first successful *)
(* create returns id 3, every successful create returns one more than the  *)
(* greatest id issued before it, with an empty history, so the ids issued  *)
(* are 1, 2, 3, ... without a gap; a create that fails consumes no id.     *)
(***************************************************************************)
C14_SeedsAndContiguousIds ==
    /\ [](last.op = "start" =>
              channels = <<[id |-> 1, name |-> general, messages |-> <<>>],
                           [id |-> 2, name |-> random, messages |-> <<>>]>>)
    /\ [](issued = 1..Cardinality(issued) /\ Cardinality(issued) >= 2)
    /\ [][CreateSucceeded(last') =>
              /\ last'.channel.id = GreatestOf(issued) + 1
              /\ issued = {1, 2} => last'.channel.id = 3
              /\ last'.channel.messages = <<>>
              /\ issued' = issued \cup {last'.channel.id}]_vars
    /\ [][CreateFailed(last') =>
              /\ nextChannelId' = nextChannelId
              /\ issued' = issued
              /\ channels' = channels]_vars

\* the second create after start has returned id 4
C14_Witness ==
    /\ CreateSucceeded(last)
    /\ last.channel = [id |-> 4, name |-> last.channel.name, messages |-> <<>>]
    /\ issued = {1, 2, 3, 4}

(***************************************************************************)
(* C15: in the minimal variant, in every state reached by POST, PATCH and  *)
(* DELETE requests, the name of every live channel is non-empty and no two *)
(* live channels have the same name.                                       *)
(***************************************************************************)
C15_MinimalNamesUnique ==
    variant = "minimal" =>
        \A i \in 1..Len(channels) :
            /\ channels[i].name # <<>>
            /\ \A j \in 1..Len(channels) : channels[j].name = channels[i].name => j = i

\* the frames of out that are not error frames
MessageFrames(out) ==
    {f \in UNION {{out[i][k] : k \in 1..Len(out[i])} : i \in 1..Len(out)} :
         ~IsErrorFrame(f)}

(***************************************************************************)
(* C16: the history of a live channel is append-only and in arrival order. *)
(* In every step the history of a channel that stays live is unchanged or  *)
(* extended by one entry at its end, renames included; the step that       *)
(* accepts a message appends exactly the entry of that message to the      *)
(* channel of its channelId and every frame it broadcasts carries that     *)
(* message, and no other step changes a history or broadcasts: so the      *)
(* entries of a history are the accepted messages for that id in arrival   *)
(* order, which is the order of their broadcasts.                          *)
(***************************************************************************)
C16_HistoryAppendOnly ==
    /\ [][\A id \in LiveIds(channels) \cap LiveIds(channels') :
              LET before == MapGet(channels, Num(id)).messages
                  after == MapGet(channels', Num(id)).messages
              IN \/ after = before
                 \/ /\ Len(after) = Len(before) + 1
                    /\ SubSeq(after, 1, Len(before)) = before]_vars
    /\ [][last'.op = "message" /\ last'.accepted =>
          \A c \in {last'.conn}, rawData \in HistoryFrames, throws \in BOOLEAN :
              OnMessage(c, rawData, throws) =>
                  LET id == rawData.data.channelId.num
                  IN /\ MapGet(channels', Num(id)).messages =
                            Append(MapGet(channels, Num(id)).messages, EntryOf(rawData.data))
                     /\ Grown(channels, channels') = {id}
                     /\ \A f \in MessageFrames(sent') : CarriesPayload(f, rawData)]_vars
    /\ [][~(last'.op = "message" /\ last'.accepted) =>
              /\ Grown(channels, channels') = {}
              /\ MessageFrames(sent') = {}]_vars

\* "yo" was accepted for the renamed channel 1 after "hi": the history holds both in
\* that order and the frame went out to the sender
C16_Witness ==
    /\ last.op = "message" /\ last.accepted
    /\ MapGet(channels, Num(1)).name = General
    /\ MapGet(channels, Num(1)).messages =
           <<[userName |-> al, text |-> hi], [userName |-> al, text |-> yo]>>
    /\ sent[last.conn] = <<ChatMessage(1, yo)>>

\* the ids of a list of channels, in its order
IdsOf(list) == [i \in 1..Len(list) |-> list[i].id]

\* list without its k-th element
RemoveAt(list, k) == SubSeq(list, 1, k - 1) \o SubSeq(list, k + 1, Len(list))

(***************************************************************************)
(* C17: getAllChannels returns the live channels in insertion order, which *)
(* is ascending id order, and GET /channels answers that list.  A rename   *)
(* leaves every channel at its position, a delete removes one element and  *)
(* keeps the order of the others, a create appends the new channel at the  *)
(* end.                                                                    *)
(***************************************************************************)
C17_ListInsertionOrder ==
    /\ [](\A i, j \in 1..Len(getAllChannels(channels)) :
              i < j => getAllChannels(channels)[i].id < getAllChannels(channels)[j].id)
    /\ [](last.op = "list" => last.list = getAllChannels(channels))
    /\ [][RenameSucceeded(last') =>
              IdsOf(getAllChannels(channels')) = IdsOf(getAllChannels(channels))]_vars
    /\ [][DeleteSucceeded(last') =>
              \E k \in 1..Len(getAllChannels(channels)) :
                  getAllChannels(channels') = RemoveAt(getAllChannels(channels), k)]_vars
    /\ [][CreateSucceeded(last') =>
              \E new \in {getAllChannels(channels')[Len(getAllChannels(channels'))]} :
                  /\ getAllChannels(channels') = Append(getAllChannels(channels), new)
                  /\ new.id \notin LiveIds(channels)]_vars

\* the first of three listed channels was renamed, after a delete and two creates
C17_Witness ==
    /\ RenameSucceeded(last)
    /\ IdsOf(getAllChannels(channels)) = <<2, 3, 4>>
    /\ last.channel.id = 2

\* the names of the requests that are strings
StringNames == {name \in NameInputs : name.t = "string"}

(***************************************************************************)
(* C18: Channels.changeName does not leave the renamed channel out of the  *)
(* uniqueness check: renaming a live channel to the name it has is refused *)
(* as a duplicate, by the method and by PATCH (400).  A rename refused by  *)
(* validation (empty, too long, bad character, duplicate) leaves the       *)
(* registry as it was: the channel's name, id, history and position and    *)
(* all other channels.                                                     *)
(***************************************************************************)
C18_RenameToOwnNameRejected ==
    /\ [](variant = "strict" =>
              \A i \in 1..Len(channels) :
                  /\ changeName(channels, Num(channels[i].id), channels[i].name).error
                         = NameDuplicate
                  /\ \A name \in StringNames :
                         (~WellFormedName(name.s) \/ name.s \in LiveNames(channels)) =>
                             LET r == changeName(channels, Num(channels[i].id), name.s)
                             IN /\ r.error \in {NameEmpty, NameTooLong, NameCharset,
                                                 NameDuplicate}
                                /\ r.channels = channels)
    /\ [][(last'.op = "rename" /\ last'.status = 400 /\ variant = "strict") =>
              channels' = channels /\ nextChannelId' = nextChannelId]_vars
    /\ [][(/\ last'.op = "rename" /\ variant = "strict"
           /\ ~(last'.status = 400 /\ last'.message = NameDuplicate)) =>
              \A idString \in IdStrings :
                  LET channel == getChannel(channels, NumberOf(idString))
                  IN channel # NoChannel =>
                         ~PatchChannelStrict(idString, Str(channel.name))]_vars

\* the only live channel was asked to take a live name, which can only be its own:
\* refused as a duplicate
C18_Witness ==
    /\ variant = "strict"
    /\ last.op = "rename" /\ last.status = 400 /\ last.message = NameDuplicate
    /\ Len(channels) = 1

\* the text parses, and a field of the value is missing or mistyped with respect to
\* {type: "message", channelId: integer, userName: string, text: string}
MistypedPayload(rawData) ==
    /\ rawData.wellFormed
    /\ ~(/\ rawData.data.isObject
         /\ rawData.data.type = "message"
         /\ rawData.data.channelId.t = "number" /\ rawData.data.channelId.den = 1
         /\ rawData.data.userName.t = "string"
         /\ rawData.data.text.t = "string")

(***************************************************************************)
(* C19: a parsed payload with a field missing or mistyped with respect to  *)
(* {type: "message", channelId: integer, userName: string, text: string},  *)
(* a channelId that is a number but not an integer included, is answered   *)
(* with the one error frame "Invalid message format" to the sender only,   *)
(* whatever its userName, its text and the live channels are, and nothing  *)
(* is broadcast or appended.                                               *)
(***************************************************************************)
C19_ShapeCheck ==
    [][last'.op = "message" =>
       \A c \in {last'.conn}, rawData \in FrameInputs :
           MistypedPayload(rawData) /\ OnMessage(c, rawData, FALSE) =>
               /\ OnlyTo(sent', c)
               /\ sent'[c][1] = JSONstringify(ErrorObj(InvalidFormat))
               /\ channels' = channels]_vars

====
